---- MODULE Spec2Model ----
(***************************************************************************)
(* ETF risk classification and recommendation-cache precomputation.        *)
(*                                                                         *)
(* Three programs of the repository are modelled, and the lookup that      *)
(* reads their cache (chatbot/recommendation_engine.py, fast_recommend_etfs,*)
(* one call on the saved cache of a builder or generator run):             *)
(*   - scripts/precompute_etf_scores_backup.py (ETFCacheBuilder): the      *)
(*     thread-pool cache builder, one task per fund;                       *)
(*   - scripts/generate_etf_cache.py (ETFCacheGenerator): the sequential   *)
(*     one-row-per-fund cache generator;                                   *)
(*   - scripts/calculate_risk_tier.py: the rolling risk metrics, the       *)
(*     risk score and the per-date tiering.                                *)
(*                                                                         *)
(* Numbers.  Factor scores are held in hundredths (0..100 for 0.0..1.0),   *)
(* weights in hundredths, weighted sums and cache scores in 1/10000        *)
(* (the four decimals _create_record rounds to).  The inputs are chosen    *)
(* so that every factor score is a whole number of hundredths.  A missing  *)
(* value (None, NaN) is the empty sequence <<>>, a present value v is <<v>>.*)
(***************************************************************************)
EXTENDS Integers, Sequences, FiniteSets, TLC

\* ------------------------------------------------------------------ bounds
\* number of funds in the info table of a cache run
NumFunds == 2

\* ------------------------------------------------------------ small helpers
None == <<>>
Some(v) == <<v>>
IsNone(x) == x = <<>>
Val(x) == x[1]

Min(a, b) == IF a <= b THEN a ELSE b
Max(a, b) == IF a >= b THEN a ELSE b

\* max(0, min(1, x)) on hundredths
Clamp01(x) == Max(0, Min(100, x))

\* sum of s[lo..hi], by halves
RECURSIVE SumRange(_, _, _)
SumRange(s, lo, hi) ==
    IF lo > hi THEN 0
    ELSE IF lo = hi THEN s[lo]
    ELSE SumRange(s, lo, (lo + hi) \div 2) + SumRange(s, (lo + hi) \div 2 + 1, hi)
SumSeq(s) == SumRange(s, 1, Len(s))

RECURSIVE Concat(_)
Concat(ss) == IF ss = <<>> THEN <<>> ELSE Head(ss) \o Concat(Tail(ss))

\* round(x, 4) of the exact value num/den, in 1/10000; a tie goes to the even
\* neighbour (Python rounds the binary value, ties of the decimal value are
\* resolved by the representation error; the even neighbour stands for it)
RoundDiv(num, den) ==
    LET q == num \div den
        r == num % den
    IN  IF 2 * r < den THEN q
        ELSE IF 2 * r > den THEN q + 1
        ELSE IF q % 2 = 0 THEN q ELSE q + 1

\* ----------------------------------------------------------- configuration
\* Config.WMTI_TYPE_WEIGHTS keys in dictionary order
WmtiTypes ==
    << "APWL", "APML", "APWC", "APMC", "ABWL", "ABML", "ABWC", "ABMC",
       "IPWL", "IPML", "IPWC", "IPMC", "IBWL", "IBML", "IBWC", "IBMC" >>

\* (return, risk_adjusted_return, cost_efficiency, liquidity, stability), hundredths
WMTI_TYPE_WEIGHTS ==
    [ APWL |-> <<35, 30, 15, 15, 5>>,  APML |-> <<40, 25, 15, 15, 5>>,
      APWC |-> <<35, 25, 20, 15, 5>>,  APMC |-> <<40, 25, 15, 15, 5>>,
      ABWL |-> <<30, 25, 20, 15, 10>>, ABML |-> <<30, 25, 20, 15, 10>>,
      ABWC |-> <<25, 25, 25, 15, 10>>, ABMC |-> <<30, 25, 20, 15, 10>>,
      IPWL |-> <<25, 30, 25, 10, 10>>, IPML |-> <<30, 30, 20, 10, 10>>,
      IPWC |-> <<25, 30, 25, 10, 10>>, IPMC |-> <<30, 30, 20, 10, 10>>,
      IBWL |-> <<20, 25, 25, 15, 15>>, IBML |-> <<25, 25, 25, 15, 10>>,
      IBWC |-> <<20, 25, 30, 15, 10>>, IBMC |-> <<25, 25, 25, 15, 10>> ]

DefaultWeights == <<30, 25, 20, 15, 10>>

GetWmtiWeightsMutHeavyDefault(wmti_type) ==
    IF wmti_type \in DOMAIN WMTI_TYPE_WEIGHTS
    THEN WMTI_TYPE_WEIGHTS[wmti_type]
    ELSE <<40, 25, 20, 15, 10>>

get_wmti_weights(wmti_type) ==
    IF wmti_type \in DOMAIN WMTI_TYPE_WEIGHTS
    THEN WMTI_TYPE_WEIGHTS[wmti_type]
    ELSE DefaultWeights

Levels == <<1, 2, 3, 4, 5>>

LevelLimitsMutDip == [l \in 1..5 |-> IF l = 3 THEN 1 ELSE l]

LEVEL_RISK_TIER_LIMITS == [l \in 1..5 |-> l]

get_risk_tier_limit(level) ==
    IF level \in DOMAIN LEVEL_RISK_TIER_LIMITS
    THEN LEVEL_RISK_TIER_LIMITS[level]
    ELSE 4

\* sum over the five factors of weight x score: hundredths x hundredths = 1/10000
WeightedSum(w, s) == SumSeq([i \in 1..5 |-> w[i] * s[i]])


\* ------------------------------------------ cache builder: per-fund scoring
\* A fund's snapshot (what analyze_etf collects for it), every field optional:
\*   ret1y, ret3m  1-year / 3-month return, percent
\*   fee           total expense ratio, tenths of a percent
\*   volume        average volume, units of 10,000 shares
\*   aum           assets under management, units of 10^9 won
\*   grade         volatility grade of the risk table
\*   vol           numeric volatility, percent (generator's merged column)

\* pd.isna(x) or x is None
IsMissing(x) == IsNone(x)

\* ETFCacheBuilder._normalize_return_score: 1y, then 3m, then 1m (never
\* supplied by _analyze_market_data), (ret + 100) / 200 clamped
NormalizeReturnScore(snap) ==
    LET returns == <<snap.ret1y, snap.ret3m, None>>
        present == SelectSeq(returns, LAMBDA r : ~IsMissing(r))
    IN  IF present = <<>> THEN 50
        ELSE Clamp01(((Val(Head(present)) + 100) * 100) \div 200)

\* ETFCacheBuilder._normalize_fee_score: 1 - fee/10 clamped (fee in percent)
NormalizeFeeScore(snap) ==
    IF IsMissing(snap.fee) THEN 50 ELSE Clamp01(100 - Val(snap.fee))

\* ETFCacheBuilder._normalize_volume_score: volume / 1,000,000 clamped
NormalizeVolumeScore(snap) ==
    IF IsMissing(snap.volume) THEN 50 ELSE Clamp01(Val(snap.volume))

\* ETFCacheBuilder._normalize_volatility_score
GradeScore(g) ==
    CASE g = "very_low" -> 20 [] g = "low" -> 40 [] g = "normal" -> 60
      [] g = "high" -> 80 [] g = "very_high" -> 100 [] OTHER -> 60
NormalizeVolatilityScore(snap) ==
    IF IsNone(snap.grade) THEN 60 ELSE GradeScore(Val(snap.grade))

\* volatility_map of ETFCacheBuilder._calculate_risk_adjusted_score, hundredths
GradeVolatility(g) ==
    CASE g = "very_low" -> 5 [] g = "low" -> 10 [] g = "normal" -> 15
      [] g = "high" -> 25 [] g = "very_high" -> 40 [] OTHER -> 15

\* ETFCacheBuilder._calculate_risk_adjusted_score: (ret/vol + 2) / 4 clamped
BuilderRiskAdjustedScore(snap) ==
    IF IsMissing(snap.ret1y) THEN 50
    ELSE LET volatility == IF IsNone(snap.grade) THEN 15
                           ELSE GradeVolatility(Val(snap.grade))
         IN  IF volatility > 0
             THEN Clamp01((Val(snap.ret1y) * 2500) \div volatility + 50)
             ELSE 50

\* ETFCacheBuilder._normalize_stability_score: aum / 100,000,000,000 clamped
NormalizeStabilityScore(snap) ==
    IF IsMissing(snap.aum) THEN 50 ELSE Clamp01(Val(snap.aum))

\* ETFCacheBuilder._calculate_base_score, in 1/10000, clamped to [0, 1]
CalculateBaseScore(snap) ==
    Max(0, Min(10000,
        NormalizeReturnScore(snap) * 40 + NormalizeFeeScore(snap) * 20
        + NormalizeVolumeScore(snap) * 20 + NormalizeVolatilityScore(snap) * 20))

\* the five factor scores process_single_etf computes for a record
BuilderFactorScores(snap) ==
    << NormalizeReturnScore(snap), BuilderRiskAdjustedScore(snap),
       NormalizeFeeScore(snap), NormalizeVolumeScore(snap),
       NormalizeStabilityScore(snap) >>

\* ------------------------------------------------ risk tier of a fund
\* ETFCacheBuilder.get_latest_risk_tier.  recs: the rows of the risk-tier
\* table with the fund's code, in file order; dtype: the type read_csv gave
\* the risk_tier column ("int64" when no value of the column is missing,
\* "float64" otherwise).  A row taken with .loc holds numpy scalars:
\* numpy.float64 is a float, numpy.int64 is neither int nor float.
MaxDate(recs) ==
    CHOOSE d \in {recs[i].basDt : i \in DOMAIN recs} :
        \A i \in DOMAIN recs : recs[i].basDt <= d
IdxMax(recs) ==
    CHOOSE i \in DOMAIN recs :
        /\ recs[i].basDt = MaxDate(recs)
        /\ \A j \in DOMAIN recs : recs[j].basDt = MaxDate(recs) => i <= j
GetLatestRiskTier(recs, dtype) ==
    IF recs = <<>> THEN -1
    ELSE LET risk_tier == recs[IdxMax(recs)].risk_tier
         IN  IF IsMissing(risk_tier) \/ dtype = "int64" \/ Val(risk_tier) < 0
             THEN -1
             ELSE Val(risk_tier)

\* ------------------------------------------ cache builder: one fund's task
\* the levels process_single_etf does not skip, in loop order
LevelKeptMutOffByOne(risk_tier, level) ==
    IF risk_tier = -1 THEN level # 1
    ELSE ~(risk_tier > get_risk_tier_limit(level) + 1)
LevelKeptMutUnmeasuredAnywhere(risk_tier, level) ==
    IF risk_tier = -1 THEN TRUE
    ELSE ~(risk_tier > get_risk_tier_limit(level))
LevelKept(risk_tier, level) ==
    IF risk_tier = -1 THEN level # 1
    ELSE ~(risk_tier > get_risk_tier_limit(level))
KeptLevelsMutThreeLevels(risk_tier) ==
    SelectSeq(<<1, 2, 3>>, LAMBDA level : LevelKept(risk_tier, level))
KeptLevels(risk_tier) ==
    SelectSeq(Levels, LAMBDA level : LevelKept(risk_tier, level))

\* final_score of a record, rounded to four decimals by _create_record:
\* (weighted sum) * effective_score, effective_score = base_score, or
\* base_score * 0.5 for an unmeasurable fund
FinalScoreMutSumOnly(snap, risk_tier, wmti_type) ==
    WeightedSum(get_wmti_weights(wmti_type), BuilderFactorScores(snap))
FinalScore(snap, risk_tier, wmti_type) ==
    LET sum == WeightedSum(get_wmti_weights(wmti_type), BuilderFactorScores(snap))
        base_score == CalculateBaseScore(snap)
    IN  IF risk_tier = -1
        THEN RoundDiv(sum * base_score, 20000)
        ELSE RoundDiv(sum * base_score, 10000)

\* ETFCacheBuilder._create_record (the columns that are not display metadata)
CreateRecord(f, snap, level, wmti_type, risk_tier) ==
    [ etf |-> f, level |-> level, wmti_type |-> wmti_type,
      base_score |-> CalculateBaseScore(snap),
      final_score |-> FinalScore(snap, risk_tier, wmti_type),
      risk_tier |-> Some(risk_tier) ]

\* the records of the two nested loops of process_single_etf
RecordsOf(f, snap, risk_tier) ==
    LET kept == KeptLevels(risk_tier)
        n == Len(WmtiTypes)
    IN  [ k \in 1..(Len(kept) * n) |->
            CreateRecord(f, snap, kept[((k - 1) \div n) + 1],
                         WmtiTypes[((k - 1) % n) + 1], risk_tier) ]

\* ETFCacheBuilder.process_single_etf.  p.analysis is what happens to the fund:
\*   "ok"       analyze_etf returns an analysis
\*   "error"    analyze_etf returns an error result (it has a description)
\*   "raise"    an exception is raised inside the try block
\*   "keyerror" the info row has no name: raised before the try block
ProcessSingleEtfMutPartial(f, p, dtype) ==
    CASE p.analysis = "keyerror" -> [ outcome |-> "raised", records |-> <<>> ]
      [] p.analysis = "error" -> [ outcome |-> "returned", records |-> <<>> ]
      [] p.analysis = "raise" ->
            [ outcome |-> "returned",
              records |-> SubSeq(RecordsOf(f, p.snap, GetLatestRiskTier(p.risk_recs, dtype)),
                                 1, Len(WmtiTypes)) ]
      [] OTHER ->
            [ outcome |-> "returned",
              records |-> RecordsOf(f, p.snap, GetLatestRiskTier(p.risk_recs, dtype)) ]
ProcessSingleEtf(f, p, dtype) ==
    CASE p.analysis = "keyerror" -> [ outcome |-> "raised", records |-> <<>> ]
      [] p.analysis = "error" -> [ outcome |-> "returned", records |-> <<>> ]
      [] p.analysis = "raise" -> [ outcome |-> "returned", records |-> <<>> ]
      [] OTHER ->
            [ outcome |-> "returned",
              records |-> RecordsOf(f, p.snap, GetLatestRiskTier(p.risk_recs, dtype)) ]


\* --------------------------------------- cache generator: per-fund scoring
\* ETFCacheGenerator._calculate_return_score: (r1y + 50) / 100, else
\* (r3m + 20) / 40, else 0.5
GenReturnScore(snap) ==
    IF ~IsNone(snap.ret1y) THEN Clamp01(Val(snap.ret1y) + 50)
    ELSE IF ~IsNone(snap.ret3m) THEN Clamp01(((Val(snap.ret3m) + 20) * 100) \div 40)
    ELSE 50

\* ETFCacheGenerator._calculate_risk_adjusted_score
GenRiskAdjustedScore(snap) ==
    IF ~IsNone(snap.ret1y) /\ ~IsNone(snap.vol) /\ Val(snap.vol) > 0
    THEN Clamp01((Val(snap.ret1y) * 25) \div Val(snap.vol) + 50)
    ELSE 50

GenCostEfficiencyScoreMutUnclamped(snap) ==
    IF ~IsNone(snap.fee) THEN 100 - (Val(snap.fee) * 10) \div 3 ELSE 50

\* ETFCacheGenerator._calculate_cost_efficiency_score: 1 - fee/3
GenCostEfficiencyScore(snap) ==
    IF ~IsNone(snap.fee) THEN Clamp01(100 - (Val(snap.fee) * 10) \div 3) ELSE 50

\* ETFCacheGenerator._calculate_liquidity_score: volume / 1,000,000
GenLiquidityScore(snap) ==
    IF ~IsNone(snap.volume) THEN Clamp01(Val(snap.volume)) ELSE 50

GenStabilityScoreMutUnclamped(snap) ==
    IF ~IsNone(snap.aum) THEN Val(snap.aum) * 10 ELSE 50

\* ETFCacheGenerator._calculate_stability_score: aum / 10,000,000,000
GenStabilityScore(snap) ==
    IF ~IsNone(snap.aum) THEN Clamp01(Val(snap.aum) * 10) ELSE 50

GenFactorScores(snap) ==
    << GenReturnScore(snap), GenRiskAdjustedScore(snap),
       GenCostEfficiencyScore(snap), GenLiquidityScore(snap),
       GenStabilityScore(snap) >>

\* ETFRecommendationEngine._calculate_stability_score: aum / 100,000,000,000
EngineStabilityScore(snap) ==
    IF ~IsNone(snap.aum) THEN Clamp01(Val(snap.aum)) ELSE 50

\* the five scores ETFRecommendationEngine._calculate_wmti_scores computes for
\* a row of a cache without score columns; the first four functions have the
\* text of the generator's
EngineFactorScores(snap) ==
    << GenReturnScore(snap), GenRiskAdjustedScore(snap),
       GenCostEfficiencyScore(snap), GenLiquidityScore(snap),
       EngineStabilityScore(snap) >>

\* score_<wmti_type> of ETFCacheGenerator._calculate_wmti_type_scores, 1/10000
GenTypeScore(scores, wmti_type) ==
    WeightedSum(WMTI_TYPE_WEIGHTS[wmti_type], scores)

\* total_score of _calculate_wmti_type_scores (balanced weights)
GenTotalScore(scores) == WeightedSum(<<30, 25, 20, 15, 10>>, scores)

\* risk_tier column after _load_risk_tier_data (first row per name) and the
\* left merge of _merge_data; 3 for every fund when the table gave no rows
GenRiskTier(recs, loaded) ==
    IF ~loaded THEN Some(3)
    ELSE IF recs = <<>> THEN None
    ELSE recs[1].risk_tier

\* the loop of ETFCacheGenerator._apply_level_filters over levels ls, starting
\* from `level` (None: not set); a comparison with a missing tier is False
RECURSIVE LevelLoop(_, _, _)
LevelLoop(risk_tier, ls, level) ==
    IF ls = <<>> THEN level
    ELSE LevelLoop(risk_tier, Tail(ls),
            IF ~IsNone(risk_tier) /\ Val(risk_tier) <= get_risk_tier_limit(Head(ls))
            THEN Some(Head(ls)) ELSE level)

\* level of a row after the loop and fillna(3)
GenLevel(risk_tier) ==
    LET level == LevelLoop(risk_tier, Levels, None)
    IN  IF IsNone(level) THEN 3 ELSE Val(level)


\* ------------------------------------------------------------------ inputs
Funds == 1..NumFunds

SnapRich ==
    [ ret1y |-> Some(30), ret3m |-> Some(4), fee |-> Some(3), volume |-> Some(40),
      aum |-> Some(5), grade |-> Some("low"), vol |-> Some(10) ]
SnapBare ==
    [ ret1y |-> None, ret3m |-> None, fee |-> None, volume |-> None,
      aum |-> None, grade |-> None, vol |-> None ]
\* snapshots at the edges of the scorers' ranges: every input negative, every
\* input zero, every input far above its scale, and a mix with only the
\* 3-month return and values the grade tables do not list
SnapNegative ==
    [ ret1y |-> Some(-300), ret3m |-> Some(-300), fee |-> Some(-20),
      volume |-> Some(-7), aum |-> Some(-4), grade |-> Some("very_low"),
      vol |-> Some(-5) ]
SnapZero ==
    [ ret1y |-> Some(0), ret3m |-> Some(0), fee |-> Some(0), volume |-> Some(0),
      aum |-> Some(0), grade |-> Some("normal"), vol |-> Some(0) ]
SnapHuge ==
    [ ret1y |-> Some(100000), ret3m |-> Some(100000), fee |-> Some(100000),
      volume |-> Some(100000), aum |-> Some(100000),
      grade |-> Some("very_high"), vol |-> Some(1) ]
SnapMixed ==
    [ ret1y |-> None, ret3m |-> Some(-300), fee |-> Some(100000),
      volume |-> None, aum |-> Some(0), grade |-> Some("unlisted"),
      vol |-> Some(100000) ]
\* a fund with market data and no row in the risk table (no volatility)
SnapNoGrade ==
    [ ret1y |-> Some(-10), ret3m |-> Some(-2), fee |-> Some(3),
      volume |-> Some(40), aum |-> Some(5), grade |-> None, vol |-> None ]
Snaps ==
    { SnapRich, SnapBare, SnapNegative, SnapZero, SnapHuge, SnapMixed, SnapNoGrade }

\* rows of the risk-tier table of one fund, ascending by date as
\* calculate_risk_tier.py writes them; risk_tier None is a missing value
TierRec(d, t) == [ basDt |-> d, risk_tier |-> t ]
TierNone == <<>>
TierTwo == << TierRec(1, Some(2)) >>
TierZeroThenFour == << TierRec(1, Some(0)), TierRec(2, Some(4)) >>
TierMissingThenOne == << TierRec(1, None), TierRec(2, Some(1)) >>
TierOptions == { TierNone, TierTwo, TierZeroThenFour, TierMissingThenOne }

\* names of underlying indexes (the column 기초지수 of the info table), one
\* character per element
IndexK2 == << "K", " ", "2" >>
IndexK2Paren == << "k", "(", "2", ")" >>
IndexSP == << "S", "P" >>
IndexN == << "N" >>

Profile(a, r, s, x) ==
    [ analysis |-> a, risk_recs |-> r, snap |-> s, base_index |-> x ]
OkProfiles ==
    << Profile("ok", TierNone, SnapRich, IndexK2), Profile("ok", TierTwo, SnapRich, IndexK2Paren),
       Profile("ok", TierZeroThenFour, SnapHuge, IndexSP),
       Profile("ok", TierMissingThenOne, SnapNegative, IndexK2),
       Profile("ok", TierNone, SnapBare, IndexSP), Profile("ok", TierTwo, SnapNoGrade, IndexN) >>
FailProfiles ==
    << Profile("error", TierNone, SnapBare, IndexN), Profile("raise", TierTwo, SnapRich, IndexSP),
       Profile("keyerror", TierNone, SnapBare, IndexK2) >>
FundProfiles == OkProfiles \o FailProfiles
GenProfiles ==
    OkProfiles
    \o << Profile("ok", TierTwo, SnapZero, IndexSP), Profile("ok", TierNone, SnapMixed, IndexN) >>

\* the info tables over the profiles ps.  Rows carry the fund's identifier and
\* tasks complete in any order, so the tables are drawn up to a renaming of
\* the funds: the profiles are taken in the order of ps
InfoTables(ps) ==
    { [f \in Funds |-> ps[idx[f]]] :
        idx \in { i \in [Funds -> DOMAIN ps] :
                    \A f, g \in Funds : f < g => i[f] <= i[g] } }

\* read_csv gives the risk_tier column float64 as soon as one value of the
\* column is missing (the table may hold rows of funds outside the info table)
HasMissingTier(fs) ==
    \E f \in DOMAIN fs : \E i \in DOMAIN fs[f].risk_recs :
        IsNone(fs[f].risk_recs[i].risk_tier)

\* ------------------------------------------------------------------- state
VARIABLES
    prog,         \* the program that runs: "builder", "generator" or "risk"
    funds,        \* the input tables, one profile per fund
    tier_dtype,   \* dtype of the risk_tier column as loaded
    tier_loaded,  \* generator: _load_risk_tier_data gave a non-empty table
    pc,           \* position of the main thread
    task,         \* builder: state of each fund's future
    result,       \* builder: records returned by each finished task
    all_records,  \* builder: build_cache's all_records
    completed,    \* builder: build_cache's completed counter
    cache_file,   \* the saved cache: None, or Some(rows)
    gen_df,       \* generator, risk calculator: the data frame df
    columns,      \* risk calculator: the columns of df
    request,      \* the arguments of the call of fast_recommend_etfs, if made
    recommendations  \* what that call returned

vars == << prog, funds, tier_dtype, tier_loaded, pc, task, result,
           all_records, completed, cache_file, gen_df, columns, request,
           recommendations >>

\* main passes max_workers=4 to build_cache
MaxWorkers == 4

\* --------------------------------------------------- cache builder: actions
InitBuilder ==
    /\ prog = "builder"
    /\ funds \in InfoTables(FundProfiles)
    /\ tier_dtype \in { "int64", "float64" }
    /\ HasMissingTier(funds) => tier_dtype = "float64"
    /\ tier_loaded = TRUE
    /\ pc = "submit"
    /\ task = [f \in Funds |-> "new"]
    /\ result = [f \in Funds |-> <<>>]
    /\ all_records = <<>>
    /\ completed = 0
    /\ cache_file = None
    /\ gen_df = <<>>
    /\ columns = {}
    /\ request = None
    /\ recommendations = None

Running == { f \in Funds : task[f] = "running" }

\* executor.submit(self.process_single_etf, row), in the order of the info table
Submit(f) ==
    /\ prog = "builder" /\ pc = "submit"
    /\ task[f] = "new"
    /\ \A g \in Funds : g < f => task[g] # "new"
    /\ task' = [task EXCEPT ![f] = "queued"]
    /\ pc' = IF \A g \in Funds : g # f => task[g] # "new" THEN "collect" ELSE pc
    /\ UNCHANGED << prog, funds, tier_dtype, tier_loaded, result, all_records,
                    completed, cache_file, gen_df, columns,
                    request, recommendations >>

\* a worker thread of the pool takes a queued task
Start(f) ==
    /\ prog = "builder"
    /\ task[f] = "queued"
    /\ Cardinality(Running) < MaxWorkers
    /\ task' = [task EXCEPT ![f] = "running"]
    /\ UNCHANGED << prog, funds, tier_dtype, tier_loaded, pc, result, all_records,
                    completed, cache_file, gen_df, columns,
                    request, recommendations >>

\* the worker runs process_single_etf to its end: the future holds the list
\* it returned, or the exception it raised
FinishMutAppendsShared(f) ==
    /\ prog = "builder"
    /\ task[f] = "running"
    /\ LET r == ProcessSingleEtf(f, funds[f], tier_dtype)
       IN  /\ task' = [task EXCEPT ![f] = r.outcome]
           /\ result' = [result EXCEPT ![f] = r.records]
           /\ all_records' = all_records \o r.records
    /\ UNCHANGED << prog, funds, tier_dtype, tier_loaded, pc,
                    completed, cache_file, gen_df, columns,
                    request, recommendations >>
Finish(f) ==
    /\ prog = "builder"
    /\ task[f] = "running"
    /\ LET r == ProcessSingleEtf(f, funds[f], tier_dtype)
       IN  /\ task' = [task EXCEPT ![f] = r.outcome]
           /\ result' = [result EXCEPT ![f] = r.records]
    /\ UNCHANGED << prog, funds, tier_dtype, tier_loaded, pc, all_records,
                    completed, cache_file, gen_df, columns,
                    request, recommendations >>

\* one iteration of `for future in as_completed(...)`: future.result() gives
\* the records (extend, completed += 1) or raises (except: completed += 1)
ExtendRecords(records, f) ==
    IF task[f] = "returned" THEN records \o result[f] ELSE records
Collect(f) ==
    /\ prog = "builder" /\ pc = "collect"
    /\ task[f] \in { "returned", "raised" }
    /\ all_records' = ExtendRecords(all_records, f)
    /\ completed' = completed + 1
    /\ task' = [task EXCEPT ![f] = "collected"]
    /\ UNCHANGED << prog, funds, tier_dtype, tier_loaded, pc, result,
                    cache_file, gen_df, columns,
                    request, recommendations >>

\* after the loop: pd.DataFrame(all_records), then the statistics lines;
\* cache_df['level'] raises KeyError on a frame built from no record, and
\* main's except turns that into exit code 1
FrameOutcome(records) == IF records = <<>> THEN "aborted" ELSE "built"
BuildFrameMutNoJoin ==
    /\ prog = "builder" /\ pc = "collect"
    /\ \E f \in Funds : task[f] = "collected"
    /\ pc' = FrameOutcome(all_records)
    /\ UNCHANGED << prog, funds, tier_dtype, tier_loaded, task, result,
                    all_records, completed, cache_file, gen_df, columns,
                    request, recommendations >>
BuildFrame ==
    /\ prog = "builder" /\ pc = "collect"
    /\ \A f \in Funds : task[f] = "collected"
    /\ pc' = FrameOutcome(all_records)
    /\ UNCHANGED << prog, funds, tier_dtype, tier_loaded, task, result,
                    all_records, completed, cache_file, gen_df, columns,
                    request, recommendations >>

\* ETFCacheBuilder.save_cache: to_csv of the frame, rows in frame order
SavedRows(records) == records
SaveCache ==
    /\ prog = "builder" /\ pc = "built"
    /\ cache_file' = Some(SavedRows(all_records))
    /\ pc' = "done"
    /\ UNCHANGED << prog, funds, tier_dtype, tier_loaded, task, result,
                    all_records, completed, gen_df, columns,
                    request, recommendations >>

NextBuilder ==
    \/ \E f \in Funds : Submit(f)
    \/ \E f \in Funds : Start(f)
    \/ \E f \in Funds : Finish(f)
    \/ \E f \in Funds : Collect(f)
    \/ BuildFrame
    \/ SaveCache

\* ------------------------------------------------- cache generator: actions
InitGen ==
    /\ prog = "generator"
    /\ funds \in InfoTables(GenProfiles)
    /\ tier_dtype = "float64"
    /\ tier_loaded \in BOOLEAN
    /\ pc = "merge"
    /\ task = [f \in Funds |-> "new"]
    /\ result = [f \in Funds |-> <<>>]
    /\ all_records = <<>>
    /\ completed = 0
    /\ cache_file = None
    /\ gen_df = <<>>
    /\ columns = {}
    /\ request = None
    /\ recommendations = None

\* steps 1-2 of generate_cache: the loads and _merge_data
MergedRow(f) ==
    [ etf |-> f, snap |-> funds[f].snap,
      risk_tier |-> GenRiskTier(funds[f].risk_recs, tier_loaded) ]
GenMerge ==
    /\ prog = "generator" /\ pc = "merge"
    /\ gen_df' = [f \in Funds |-> MergedRow(f)]
    /\ pc' = "score"
    /\ UNCHANGED << prog, funds, tier_dtype, tier_loaded, task, result,
                    all_records, completed, cache_file, columns,
                    request, recommendations >>

\* steps 3-4: _calculate_objective_scores (which ends with
\* _calculate_wmti_type_scores) and _calculate_wmti_type_scores again
ScoredRow(row) ==
    LET scores == GenFactorScores(row.snap)
    IN  [ etf |-> row.etf, risk_tier |-> row.risk_tier, scores |-> scores,
          type_score |-> [t \in DOMAIN WMTI_TYPE_WEIGHTS |-> GenTypeScore(scores, t)],
          total_score |-> GenTotalScore(scores) ]
GenScore ==
    /\ prog = "generator" /\ pc = "score"
    /\ gen_df' = [i \in DOMAIN gen_df |-> ScoredRow(gen_df[i])]
    /\ pc' = "level"
    /\ UNCHANGED << prog, funds, tier_dtype, tier_loaded, task, result,
                    all_records, completed, cache_file, columns,
                    request, recommendations >>

\* step 5: _apply_level_filters
LevelledRow(row) ==
    [ etf |-> row.etf, risk_tier |-> row.risk_tier, scores |-> row.scores,
      type_score |-> row.type_score, total_score |-> row.total_score,
      level |-> GenLevel(row.risk_tier) ]
GenApplyLevel ==
    /\ prog = "generator" /\ pc = "level"
    /\ gen_df' = [i \in DOMAIN gen_df |-> LevelledRow(gen_df[i])]
    /\ pc' = "save"
    /\ UNCHANGED << prog, funds, tier_dtype, tier_loaded, task, result,
                    all_records, completed, cache_file, columns,
                    request, recommendations >>

\* ETFCacheGenerator.save_cache
GenSave ==
    /\ prog = "generator" /\ pc = "save"
    /\ cache_file' = Some(gen_df)
    /\ pc' = "done"
    /\ UNCHANGED << prog, funds, tier_dtype, tier_loaded, task, result,
                    all_records, completed, gen_df, columns,
                    request, recommendations >>

NextGen == GenMerge \/ GenScore \/ GenApplyLevel \/ GenSave

\* ================================================== risk calculator: numbers
\* A float of calculate_risk_tier.py is NaN, an infinity (only absolute values
\* of infinite metrics are used), or a finite number held in fixed point:
\* returns in basis points, volatility, mean and downside deviation in tenths
\* of a basis point, VaR in hundredths of a basis point, max drawdown in basis
\* points, beta and the two ratios in hundredths, normalized metrics in
\* 1/10000, Risk_Score in 1/1000000.
NaN == [ k |-> "nan", v |-> 0 ]
Inf == [ k |-> "inf", v |-> 0 ]
Fin(x) == [ k |-> "fin", v |-> x ]
IsNaN(x) == x.k = "nan"
IsInf(x) == x.k = "inf"
Abs(x) == IF x < 0 THEN -x ELSE x

\* rolling window size
WINDOW == 126
\* trading days of a year, the annualization factor np.sqrt(252)
AnnualDays == 252
\* W_RISK, hundredths
W_RISK ==
    [ vol |-> 25, max_dd |-> 15, VaR |-> 20, beta |-> 10, sharpe |-> 15,
      sortino |-> 10, down_dev |-> 5 ]
\* TH_MDD, percent
TH_MDD == 20
\* Risk_Score <= 0.4 is 'R', percent
RiskBinThreshold == 40
\* number of quantiles of pd.qcut
NumTiers == 5
risk_metrics == << "vol", "max_dd", "VaR", "beta", "sharpe", "sortino", "down_dev" >>
OutputCols == { "basDt", "srtnCd", "Risk_Score", "risk_bin", "risk_tier", "strat_bin" }

\* np.sqrt on a non-negative fixed-point number: the integer square root
RECURSIVE SqrtBetween(_, _, _)
SqrtBetween(n, lo, hi) ==
    IF lo = hi THEN lo
    ELSE LET mid == (lo + hi + 1) \div 2
         IN  IF mid * mid <= n THEN SqrtBetween(n, mid, hi)
             ELSE SqrtBetween(n, lo, mid - 1)
ISqrt(n) == SqrtBetween(n, 0, Min(n, 46340))
\* np.sqrt(252), hundredths
Sqrt252 == ISqrt(AnnualDays * 10000)

\* a / b of two floats where a is finite: x/0 is an infinity, 0/0 is NaN;
\* the quotient is scaled by `scale`
FloatDiv(a, b, scale) ==
    IF b = 0 THEN (IF a = 0 THEN NaN ELSE Inf)
    ELSE Fin(RoundDiv(a * scale, b))

Range(s) == { s[i] : i \in DOMAIN s }
\* the k-th smallest value of s, k in 1..Len(s)
KthSmallest(s, k) ==
    CHOOSE x \in Range(s) :
        /\ Cardinality({ i \in DOMAIN s : s[i] < x }) < k
        /\ Cardinality({ i \in DOMAIN s : s[i] <= x }) >= k
\* quantile num/den of s by linear interpolation, times den
Quantile(s, num, den) ==
    LET pos == num * (Len(s) - 1)
        lo == pos \div den
        fr == pos % den
    IN  IF fr = 0 THEN den * KthSmallest(s, lo + 1)
        ELSE (den - fr) * KthSmallest(s, lo + 1) + fr * KthSmallest(s, lo + 2)

\* ----------------------------------------- risk calculator: rolling metrics
\* groupby(...)[col].pct_change(): the first value of a group is NaN
PctChange(prices) ==
    [t \in DOMAIN prices |->
        IF t = 1 THEN NaN
        ELSE Fin(RoundDiv((prices[t] - prices[t - 1]) * 10000, prices[t - 1]))]

Sum(w) == SumSeq(w)
SumProd(w, m) == SumSeq([i \in DOMAIN w |-> w[i] * m[i]])
\* W * sum(x*y) - sum(x) * sum(y): W * (W - 1) times the sample covariance
CovNum(w, m) == Len(w) * SumProd(w, m) - Sum(w) * Sum(m)
\* rolling mean, tenths of a basis point
Mean(w) == RoundDiv(Sum(w) * 10, Len(w))
\* rolling std(ddof=1) times np.sqrt(252), tenths of a basis point
StdAnnual(w) ==
    ISqrt((((CovNum(w, w) \div Len(w)) * 100) \div (Len(w) - 1)) * AnnualDays)

\* max_drawdown(returns): cumulative product, running maximum, largest
\* relative fall (basis points).  cum is held in 1/100000; the three arrays
\* are built left to right, one position per DrawdownStep, the positions
\* lo..hi being visited by halves (the left half is complete, its worst
\* drawdown known and never negative, before the right half starts).
DrawdownStep(st, ret) ==
    LET cum == RoundDiv(st.cum * (10000 + ret), 10000)
        running_max == Max(st.running_max, cum)
        drawdown == RoundDiv((running_max - cum) * 10000, running_max)
    IN  [ cum |-> cum, running_max |-> running_max,
          worst |-> Max(st.worst, drawdown) ]
RECURSIVE DrawdownFrom(_, _, _, _)
DrawdownFrom(returns, lo, hi, st) ==
    IF lo > hi THEN st
    ELSE IF lo = hi THEN DrawdownStep(st, returns[lo])
    ELSE LET left == DrawdownFrom(returns, lo, (lo + hi) \div 2, st)
         IN  IF left.worst >= 0
             THEN DrawdownFrom(returns, (lo + hi) \div 2 + 1, hi, left)
             ELSE left
max_drawdown(returns) ==
    DrawdownFrom(returns, 1, Len(returns),
                 [ cum |-> 100000, running_max |-> 0, worst |-> 0 ]).worst

\* .quantile(0.05) of the window, hundredths of a basis point
VaR95(w) == Quantile(w, 5, 100)
\* np.sqrt(np.mean(np.minimum(x,0)**2)*252), tenths of a basis point
DownDev(w) ==
    ISqrt(((SumSeq([i \in DOMAIN w |-> Min(w[i], 0) * Min(w[i], 0)]) * 100)
              \div Len(w)) * AnnualDays)
\* mean_r.div(x).mul(np.sqrt(252)), hundredths
RatioMetric(mean, x) == FloatDiv(mean, x, Sqrt252)
\* rolling cov(r, mkt_r) / rolling var(mkt_r), hundredths
Beta(w, m) == FloatDiv(CovNum(w, m) \div Len(w), CovNum(m, m) \div Len(m), 100)

\* the window of rolling(WINDOW, min_periods=WINDOW) ending at row t of a
\* group: defined when it holds WINDOW values none of which is NaN
HasWindow(series, t) ==
    /\ t >= WINDOW
    /\ \A i \in (t - WINDOW + 1)..t : ~IsNaN(series[i])
WindowAt(series, t) == [i \in 1..WINDOW |-> series[t - WINDOW + i].v]

\* the seven metrics of row t of a group with returns r and index returns mkt_r
MetricsAt(r, mkt_r, t) ==
    IF ~HasWindow(r, t)
    THEN [m \in Range(risk_metrics) |-> NaN]
    ELSE LET w == WindowAt(r, t)
             mean_r == Mean(w)
             std_r == StdAnnual(w)
             down_dev == DownDev(w)
         IN  [ vol |-> Fin(std_r),
               max_dd |-> Fin(max_drawdown(w)),
               VaR |-> Fin(VaR95(w)),
               beta |-> IF HasWindow(mkt_r, t) THEN Beta(w, WindowAt(mkt_r, t)) ELSE NaN,
               sharpe |-> RatioMetric(mean_r, std_r),
               down_dev |-> Fin(down_dev),
               sortino |-> RatioMetric(mean_r, down_dev) ]

\* --------------------------------- risk calculator: normalization and score
AbsF(x) == IF x.k = "fin" THEN Fin(Abs(x.v)) ELSE x
\* df[m].abs().max() over every row of the frame (all funds, all dates)
MaxAbs(df, m) ==
    IF df = <<>> THEN NaN
    ELSE IF \E i \in DOMAIN df : IsInf(df[i].metrics[m]) THEN Inf
    ELSE Fin(CHOOSE x \in { Abs(df[i].metrics[m].v) : i \in DOMAIN df } :
                \A i \in DOMAIN df : Abs(df[i].metrics[m].v) <= x)
\* df[m].abs() / max_vals[m], 1/10000: inf/inf and 0/0 are NaN, x/inf is 0
Normalized(x, max_val) ==
    IF IsNaN(x) \/ IsNaN(max_val) THEN NaN
    ELSE IF IsInf(x) THEN (IF IsInf(max_val) THEN NaN ELSE Inf)
    ELSE IF IsInf(max_val) THEN Fin(0)
    ELSE FloatDiv(Abs(x.v), max_val.v, 10000)
\* sum(W_RISK[m] * df[f'n_{m}']), 1/1000000
RiskScore(n) ==
    IF \E m \in DOMAIN n : IsNaN(n[m]) THEN NaN
    ELSE IF \E m \in DOMAIN n : IsInf(n[m]) THEN Inf
    ELSE Fin(SumSeq([i \in DOMAIN risk_metrics |->
                        W_RISK[risk_metrics[i]] * n[risk_metrics[i]].v]))
\* np.where(Risk_Score <= 0.4, 'R', 'E'): a comparison with NaN is False
RiskBin(score) ==
    IF score.k = "fin" /\ score.v <= RiskBinThreshold * 10000 THEN "R" ELSE "E"
\* np.where(max_dd <= TH_MDD, 'B', 'P')
StratBin(max_dd) ==
    IF max_dd.k = "fin" /\ max_dd.v <= TH_MDD * 100 THEN "B" ELSE "P"

\* pd.qcut(x, 5, labels=False, duplicates='drop') for one value of the group
\* xs: the edges are the quantiles 0, 1/5 .. 1 of the values that are not
\* NaN, duplicates dropped; the bin of a value is the number of edges below
\* it, the lowest edge included in the first bin; a value in no bin is NaN
QcutEdges(valid) == { Quantile(valid, j, NumTiers) : j \in 0..NumTiers }
QcutMutDescending(xs, x) ==
    LET valid == SelectSeq(xs, LAMBDA y : y.k = "fin")
        values == [i \in DOMAIN valid |-> valid[i].v]
        bins == QcutEdges(values)
        ids == IF \A b \in bins : NumTiers * x.v <= b
               THEN 1
               ELSE Cardinality({ b \in bins : b < NumTiers * x.v })
    IN  IF x.k # "fin" \/ valid = <<>> THEN None
        ELSE IF ids = 0 \/ ids = Cardinality(bins) THEN None
        ELSE Some(Cardinality(bins) - 1 - ids)
Qcut(xs, x) ==
    LET valid == SelectSeq(xs, LAMBDA y : y.k = "fin")
        values == [i \in DOMAIN valid |-> valid[i].v]
        bins == QcutEdges(values)
        ids == IF \A b \in bins : NumTiers * x.v <= b
               THEN 1
               ELSE Cardinality({ b \in bins : b < NumTiers * x.v })
    IN  IF x.k # "fin" \/ valid = <<>> THEN None
        ELSE IF ids = 0 \/ ids = Cardinality(bins) THEN None
        ELSE Some(ids - 1)

\* ---------------------------------------------- risk calculator: the frame
GroupOf(df, f) == SelectSeq(df, LAMBDA row : row.srtnCd = f)
Col(rows, c) == [i \in DOMAIN rows |-> rows[i][c]]
GroupReturns(g) ==
    LET r == PctChange(Col(g, "clpr"))
        mkt_r == PctChange(Col(g, "bssIdxClpr"))
    IN  [t \in DOMAIN g |->
            [ srtnCd |-> g[t].srtnCd, basDt |-> g[t].basDt,
              r |-> r[t], mkt_r |-> mkt_r[t] ]]
GroupMetrics(g) ==
    LET r == Col(g, "r")
        mkt_r == Col(g, "mkt_r")
    IN  [t \in DOMAIN g |->
            [ srtnCd |-> g[t].srtnCd, basDt |-> g[t].basDt,
              metrics |-> MetricsAt(r, mkt_r, t) ]]
\* groupby('srtnCd') over a frame sorted by srtnCd: the groups in order
ReturnsFrame(df) == Concat([f \in Funds |-> GroupReturns(GroupOf(df, f))])
MetricsFrame(df) == Concat([f \in Funds |-> GroupMetrics(GroupOf(df, f))])
\* df.dropna(subset=risk_metrics): an infinite value is not missing
DropNa(df) ==
    SelectSeq(df, LAMBDA row : \A m \in Range(risk_metrics) : ~IsNaN(row.metrics[m]))
NormalizedRow(df, row) ==
    [ srtnCd |-> row.srtnCd, basDt |-> row.basDt, metrics |-> row.metrics,
      n |-> [m \in Range(risk_metrics) |-> Normalized(row.metrics[m], MaxAbs(df, m))] ]
ScoredRiskRow(row) ==
    [ srtnCd |-> row.srtnCd, basDt |-> row.basDt, metrics |-> row.metrics,
      Risk_Score |-> RiskScore(row.n), risk_bin |-> RiskBin(RiskScore(row.n)) ]
\* groupby('basDt')['Risk_Score'].transform(qcut), then strat_bin
TieredRow(df, row) ==
    [ srtnCd |-> row.srtnCd, basDt |-> row.basDt,
      Risk_Score |-> row.Risk_Score, risk_bin |-> row.risk_bin,
      risk_tier |-> Qcut(Col(SelectSeq(df, LAMBDA other : other.basDt = row.basDt),
                             "Risk_Score"), row.Risk_Score),
      strat_bin |-> StratBin(row.metrics.max_dd) ]
StratRow(row) ==
    [ srtnCd |-> row.srtnCd, basDt |-> row.basDt,
      Risk_Score |-> row.Risk_Score, risk_bin |-> row.risk_bin,
      strat_bin |-> StratBin(row.metrics.max_dd) ]

\* ---------------------------------------------- risk calculator: the input
\* observations a long-listed fund has beyond the window
ExtraObs == 2
\* the last date of the price file; a fund with n observations has the last
\* n dates
LastDate == WINDOW + ExtraObs

PriceProfile(n, shape, amp, index) ==
    [ n |-> n, shape |-> shape, amp |-> amp, index |-> index ]
\* closing price of observation t: constant, rising every day (by amp on odd
\* days and by 2*amp on even days), rising by amp every day but for one fall
\* of 2*amp on the first day of the last window, or alternating between two
\* prices
Clpr(p, t) ==
    CASE p.shape = "flat" -> 10000
      [] p.shape = "rising" -> 10000 + p.amp * (t + t \div 2)
      [] p.shape = "dip" ->
            10000 + p.amp * t - (IF t > p.n - WINDOW THEN 3 * p.amp ELSE 0)
      [] OTHER -> 10000 + p.amp * (t % 2)
\* closing value of the underlying index: constant or alternating
BssIdxClpr(p, t) ==
    IF p.index = "flat" THEN 2000 ELSE 2000 + 10 * ((t + 1) % 2)
PriceProfiles ==
    << PriceProfile(WINDOW - 1, "zigzag", 100, "zigzag"),
       PriceProfile(WINDOW, "zigzag", 100, "zigzag"),
       PriceProfile(WINDOW + 1, "zigzag", 60, "zigzag"),
       PriceProfile(LastDate, "zigzag", 100, "zigzag"),
       PriceProfile(LastDate, "zigzag", 40, "zigzag"),
       PriceProfile(LastDate, "rising", 20, "zigzag"),
       PriceProfile(LastDate, "flat", 0, "zigzag"),
       PriceProfile(LastDate, "zigzag", 100, "flat"),
       PriceProfile(LastDate, "dip", 20, "zigzag") >>
\* the rows of fund f in the price file
PriceRows(f, p) ==
    [t \in 1..p.n |->
        [ srtnCd |-> f, basDt |-> LastDate - p.n + t,
          clpr |-> Clpr(p, t), bssIdxClpr |-> BssIdxClpr(p, t) ]]

\* ------------------------------------------- risk calculator: the steps
InitRisk ==
    /\ prog = "risk"
    /\ funds \in InfoTables(PriceProfiles)
    /\ tier_dtype = "float64"
    /\ tier_loaded = TRUE
    /\ pc = "read"
    /\ task = [f \in Funds |-> "new"]
    /\ result = [f \in Funds |-> <<>>]
    /\ all_records = <<>>
    /\ completed = 0
    /\ cache_file = None
    /\ gen_df = <<>>
    /\ columns = {}
    /\ request = None
    /\ recommendations = None

\* pd.read_csv and sort_values(['srtnCd','basDt'])
ReadPrices ==
    /\ prog = "risk" /\ pc = "read"
    /\ gen_df' = Concat([f \in Funds |-> PriceRows(f, funds[f])])
    /\ columns' = { "basDt", "srtnCd", "itmsNm", "clpr", "bssIdxClpr" }
    /\ pc' = "returns"
    /\ UNCHANGED << prog, funds, tier_dtype, tier_loaded, task, result,
                    all_records, completed, cache_file,
                    request, recommendations >>

\* df['r'], df['mkt_r']
Returns ==
    /\ prog = "risk" /\ pc = "returns"
    /\ gen_df' = ReturnsFrame(gen_df)
    /\ columns' = columns \cup { "r", "mkt_r" }
    /\ pc' = "metrics"
    /\ UNCHANGED << prog, funds, tier_dtype, tier_loaded, task, result,
                    all_records, completed, cache_file,
                    request, recommendations >>

\* the seven rolling metrics
RollingMetrics ==
    /\ prog = "risk" /\ pc = "metrics"
    /\ gen_df' = MetricsFrame(gen_df)
    /\ columns' = columns \cup Range(risk_metrics)
    /\ pc' = "dropna"
    /\ UNCHANGED << prog, funds, tier_dtype, tier_loaded, task, result,
                    all_records, completed, cache_file,
                    request, recommendations >>

DropNaStep ==
    /\ prog = "risk" /\ pc = "dropna"
    /\ gen_df' = DropNa(gen_df)
    /\ pc' = "normalize"
    /\ UNCHANGED << prog, funds, tier_dtype, tier_loaded, task, result,
                    all_records, completed, cache_file, columns,
                    request, recommendations >>

\* max_vals and the n_<m> columns
Normalize ==
    /\ prog = "risk" /\ pc = "normalize"
    /\ gen_df' = [i \in DOMAIN gen_df |-> NormalizedRow(gen_df, gen_df[i])]
    /\ columns' = columns \cup { "n_" \o risk_metrics[i] : i \in DOMAIN risk_metrics }
    /\ pc' = "score"
    /\ UNCHANGED << prog, funds, tier_dtype, tier_loaded, task, result,
                    all_records, completed, cache_file,
                    request, recommendations >>

\* Risk_Score and risk_bin
Score ==
    /\ prog = "risk" /\ pc = "score"
    /\ gen_df' = [i \in DOMAIN gen_df |-> ScoredRiskRow(gen_df[i])]
    /\ columns' = columns \cup { "Risk_Score", "risk_bin" }
    /\ pc' = "tier"
    /\ UNCHANGED << prog, funds, tier_dtype, tier_loaded, task, result,
                    all_records, completed, cache_file,
                    request, recommendations >>

\* risk_tier, only `if not df['Risk_Score'].empty`, and strat_bin
Tier ==
    /\ prog = "risk" /\ pc = "tier"
    /\ IF gen_df # <<>>
       THEN /\ gen_df' = [i \in DOMAIN gen_df |-> TieredRow(gen_df, gen_df[i])]
            /\ columns' = columns \cup { "risk_tier", "strat_bin" }
       ELSE /\ gen_df' = [i \in DOMAIN gen_df |-> StratRow(gen_df[i])]
            /\ columns' = columns \cup { "strat_bin" }
    /\ pc' = "save"
    /\ UNCHANGED << prog, funds, tier_dtype, tier_loaded, task, result,
                    all_records, completed, cache_file,
                    request, recommendations >>

\* df[cols].to_csv(OUTPUT_CSV): selecting a column the frame does not have
\* raises KeyError and the script ends with nothing written
Save ==
    /\ prog = "risk" /\ pc = "save"
    /\ IF OutputCols \subseteq columns
       THEN cache_file' = Some(gen_df) /\ pc' = "done"
       ELSE cache_file' = cache_file /\ pc' = "crashed"
    /\ UNCHANGED << prog, funds, tier_dtype, tier_loaded, task, result,
                    all_records, completed, gen_df, columns,
                    request, recommendations >>

NextRisk ==
    \/ ReadPrices \/ Returns \/ RollingMetrics \/ DropNaStep
    \/ Normalize \/ Score \/ Tier \/ Save

\* =================================================== recommendation engine
\* ETFRecommendationEngine.fast_recommend_etfs, called by the applications on
\* pd.read_csv of the saved cache.  Column names: item_code is 종목코드,
\* item_name 종목명, ETF_name ETF명, base_index 기초지수.
BuilderColumns ==
    { "ETF_name", "item_code", "base_index", "level", "wmti_type",
      "base_score", "final_score", "risk_tier" }
GeneratorColumns ==
    { "item_name", "item_code", "base_index", "total_score", "risk_tier",
      "level" } \cup { "score_" \o t : t \in DOMAIN WMTI_TYPE_WEIGHTS }
CacheColumns == IF prog = "builder" THEN BuilderColumns ELSE GeneratorColumns

\* the frame read from the cache file: the rows in file order, each with the
\* underlying index its builder copied from the info table
ReadCache(rows) ==
    [i \in DOMAIN rows |->
        [ etf |-> rows[i].etf, base_index |-> funds[rows[i].etf].base_index,
          level |-> rows[i].level, risk_tier |-> rows[i].risk_tier,
          row |-> rows[i] ]]

\* the rows of df at the positions keep, in frame order
RECURSIVE RowsAt(_, _)
RowsAt(df, keep) ==
    IF keep = {} THEN <<>>
    ELSE LET i == CHOOSE k \in keep : \A j \in keep : k <= j
         IN  << df[i] >> \o RowsAt(df, keep \ { i })

\* cache_df.drop_duplicates(subset=['종목코드'], keep='first')
DropDuplicateCodes(df) ==
    LET codes == { df[i].etf : i \in DOMAIN df }
        first == { CHOOSE i \in DOMAIN df :
                      /\ df[i].etf = c
                      /\ \A j \in DOMAIN df : df[j].etf = c => i <= j
                   : c \in codes }
    IN  RowsAt(df, first)

\* str.lower() on the letters of the index names
Lower(c) ==
    CASE c = "K" -> "k" [] c = "S" -> "s" [] c = "P" -> "p" [] c = "N" -> "n"
      [] OTHER -> c
\* .str.replace(r'[\(\)\s]', '', regex=True).str.lower()
NormalizeIndex(name) ==
    LET kept == SelectSeq(name, LAMBDA c : c \notin { "(", ")", " " })
    IN  [i \in DOMAIN kept |-> Lower(kept[i])]
\* drop_duplicates(subset=['기초지수_정규화'], keep='first')
DropDuplicateIndexes(df) ==
    RowsAt(df, { i \in DOMAIN df :
                    \A j \in 1..(i - 1) :
                        NormalizeIndex(df[j].base_index)
                            # NormalizeIndex(df[i].base_index) })

\* str.contains(keyword, case=False)
Contains(name, keyword) ==
    \E i \in 1..(Len(name) - Len(keyword) + 1) :
        \A j \in DOMAIN keyword : Lower(name[i + j - 1]) = Lower(keyword[j])
\* _filter_by_category: the whole frame for a keyword that is empty after
\* strip(), else the rows one of whose searched columns holds the keyword (the
\* fund names and classifications of the info table hold none of the keywords)
FilterByCategory(df, category_keyword) ==
    IF SelectSeq(category_keyword, LAMBDA c : c # " ") = <<>> THEN df
    ELSE SelectSeq(df, LAMBDA row : Contains(row.base_index, category_keyword))

\* a level of a user profile: absent, an integer, or a string of characters
NoLevel == [ k |-> "none", v |-> 0 ]
IntLevel(n) == [ k |-> "int", v |-> n ]
StrLevel(chars) == [ k |-> "str", v |-> chars ]
DigitChars == << "1", "2", "3", "4", "5" >>
\* validate_user_profile(...)['level']: the first of '1'..'5' a string
\* contains, the integer itself when it is one of 1..5, else 3
ValidateUserLevelMutDefaultOne(level) ==
    IF level.k = "str"
    THEN LET found == { d \in 1..5 : DigitChars[d] \in Range(level.v) }
         IN  IF found = {} THEN 3
             ELSE CHOOSE d \in found : \A e \in found : d <= e
    ELSE IF level.k = "int" /\ level.v \in 1..5 THEN level.v ELSE 1
validate_user_profile(level) ==
    IF level.k = "str"
    THEN LET found == { d \in 1..5 : DigitChars[d] \in Range(level.v) }
         IN  IF found = {} THEN 3
             ELSE CHOOSE d \in found : \A e \in found : d <= e
    ELSE IF level.k = "int" /\ level.v \in 1..5 THEN level.v ELSE 3

\* the boolean mask of _filter_by_user_level; a comparison with a missing
\* risk_tier is False
LevelMaskMutAnyLevel(row, user_level, risk_limit, cols) ==
    IF "risk_tier" \in cols
    THEN ~IsNone(row.risk_tier) /\ Val(row.risk_tier) <= risk_limit
    ELSE TRUE
LevelMask(row, user_level, risk_limit, cols) ==
    IF "risk_tier" \in cols
    THEN /\ row.level = user_level
         /\ ~IsNone(row.risk_tier) /\ Val(row.risk_tier) <= risk_limit
    ELSE row.level = user_level
\* _filter_by_user_level: the rows of the mask; the log line that lists
\* filtered['종목명'] raises KeyError when rows are left and the cache has no
\* such column
FilterByUserLevel(df, level, cols) ==
    LET user_level == validate_user_profile(level)
        risk_limit == get_risk_tier_limit(user_level)
        filtered == SelectSeq(df, LAMBDA row :
                        LevelMask(row, user_level, risk_limit, cols))
    IN  [ raised |-> filtered # <<>> /\ "item_name" \notin cols,
          df |-> filtered ]

\* the inputs of the engine's own five scorers in a row of a cache: the cache
\* files have no return column, and the builder's 변동성 column holds a grade
CacheSnap(row) ==
    [ funds[row.etf].snap EXCEPT !.ret1y = None, !.ret3m = None, !.vol = None ]
\* final_score of _calculate_wmti_scores: score_<wmti_type> when the cache has
\* that column, else total_score, else the weighted sum of the engine's scores
EngineFinalScore(row, wmti_type, cols) ==
    IF ("score_" \o wmti_type) \in cols THEN row.row.type_score[wmti_type]
    ELSE IF "total_score" \in cols THEN row.row.total_score
    ELSE WeightedSum(get_wmti_weights(wmti_type), EngineFactorScores(CacheSnap(row)))
WithFinalScore(row, wmti_type, cols) ==
    [ etf |-> row.etf, base_index |-> row.base_index, level |-> row.level,
      risk_tier |-> row.risk_tier,
      final_score |-> EngineFinalScore(row, wmti_type, cols) ]
\* df.sort_values('final_score', ascending=False): the highest score first,
\* equal scores in frame order
RECURSIVE SortValuesMutAscending(_)
SortValuesMutAscending(df) ==
    IF df = <<>> THEN <<>>
    ELSE LET i == CHOOSE k \in DOMAIN df :
                    /\ \A j \in DOMAIN df : df[j].final_score >= df[k].final_score
                    /\ \A j \in 1..(k - 1) : df[j].final_score > df[k].final_score
         IN  << df[i] >> \o SortValuesMutAscending(RowsAt(df, DOMAIN df \ { i }))
RECURSIVE SortValues(_)
SortValues(df) ==
    IF df = <<>> THEN <<>>
    ELSE LET i == CHOOSE k \in DOMAIN df :
                    /\ \A j \in DOMAIN df : df[j].final_score <= df[k].final_score
                    /\ \A j \in 1..(k - 1) : df[j].final_score < df[k].final_score
         IN  << df[i] >> \o SortValues(RowsAt(df, DOMAIN df \ { i }))
CalculateWmtiScores(df, wmti_type, cols) ==
    SortValues([i \in DOMAIN df |-> WithFinalScore(df[i], wmti_type, cols)])

\* what fast_recommend_etfs returns: funds, or the single guidance entry
Guidance == [ guidance |-> TRUE, etfs |-> <<>> ]
TopEtfs(rows) == [ guidance |-> FALSE, etfs |-> rows ]
\* user_profile.get('wmti_type', 'ABWC')
DefaultWmtiType == "ABWC"
\* scored_etfs.head(top_n), top_n >= 0
HeadMutAll(df, top_n) == df
HeadOf(df, top_n) == SubSeq(df, 1, Min(top_n, Len(df)))
\* the candidates the ranking step of fast_recommend_etfs works on
Candidates(user_profile, cache_df, cols, category_keyword) ==
    LET deduped == DropDuplicateCodes(cache_df)
        by_category == FilterByCategory(deduped, category_keyword)
        filtered == IF "base_index" \in cols
                    THEN DropDuplicateIndexes(by_category) ELSE by_category
    IN  IF filtered = <<>> THEN [ raised |-> FALSE, df |-> <<>> ]
        ELSE FilterByUserLevel(filtered, user_profile.level, cols)
fast_recommend_etfs(user_profile, cache_df, cols, category_keyword, top_n) ==
    LET levelled == Candidates(user_profile, cache_df, cols, category_keyword)
        wmti_type == IF IsNone(user_profile.wmti_type) THEN DefaultWmtiType
                     ELSE Val(user_profile.wmti_type)
    IN  IF levelled.raised \/ levelled.df = <<>> THEN Guidance
        ELSE IF "item_name" \notin cols THEN Guidance
        ELSE TopEtfs(HeadOf(CalculateWmtiScores(levelled.df, wmti_type, cols),
                            top_n))

\* top_n of the signature of fast_recommend_etfs
DefaultTopN == 5
Request(level, wmti_type, keyword, top_n) ==
    [ user_profile |-> [ level |-> level, wmti_type |-> wmti_type ],
      category_keyword |-> keyword, top_n |-> top_n ]
Requests ==
    << Request(IntLevel(5), None, <<>>, DefaultTopN),
       Request(IntLevel(5), Some("APML"), <<>>, 1),
       Request(StrLevel(<< "L", "5" >>), Some("XXXX"), << "s", "p" >>, 1),
       Request(NoLevel, Some("ABWC"), <<>>, DefaultTopN),
       Request(IntLevel(1), Some("IBWC"), << " " >>, DefaultTopN),
       Request(IntLevel(9), None, <<>>, 0) >>

\* an application reads the saved cache and calls fast_recommend_etfs
FastRecommend(req) ==
    /\ prog \in { "builder", "generator" } /\ pc = "done"
    /\ IsNone(request)
    /\ request' = Some(req)
    /\ recommendations' =
          Some(fast_recommend_etfs(req.user_profile, ReadCache(Val(cache_file)),
                                   CacheColumns, req.category_keyword, req.top_n))
    /\ UNCHANGED << prog, funds, tier_dtype, tier_loaded, pc, task, result,
                    all_records, completed, cache_file, gen_df, columns >>

NextEngine == \E i \in DOMAIN Requests : FastRecommend(Requests[i])

\* ------------------------------------------------------------ specification
Init == InitBuilder \/ InitGen \/ InitRisk
Next == NextBuilder \/ NextGen \/ NextRisk \/ NextEngine
Spec == Init /\ [][Next]_vars


\* ============================================================== properties
\* the rows of the cache a run has produced so far
CacheRows ==
    IF prog = "builder" THEN all_records
    ELSE IF prog = "generator" /\ pc \in { "save", "done" } THEN gen_df
    ELSE <<>>

AllCollected == prog = "builder" /\ \A f \in Funds : task[f] = "collected"

\* the tier process_single_etf works with for fund f
TierOf(f) == GetLatestRiskTier(funds[f].risk_recs, tier_dtype)

\* the rows of all_records of fund f, in order
RowsOfFund(f) == SelectSeq(all_records, LAMBDA row : row.etf = f)

\* the rows of a fund at a level, and how many of them are of an archetype
RowsAtLevel(rows, level) == SelectSeq(rows, LAMBDA row : row.level = level)
CountType(rows, wmti_type) ==
    Cardinality({ i \in DOMAIN rows : rows[i].wmti_type = wmti_type })

CountRows(f, level, wmti_type) ==
    Cardinality({ i \in DOMAIN all_records :
        /\ all_records[i].etf = f
        /\ all_records[i].level = level
        /\ all_records[i].wmti_type = wmti_type })

\* a comparison with a missing value is False
TierLeq(t, limit) == ~IsNone(t) /\ Val(t) <= limit

RowSum(row) ==
    WeightedSum(WMTI_TYPE_WEIGHTS[row.wmti_type],
                BuilderFactorScores(funds[row.etf].snap))

RowsAlone(g) == ProcessSingleEtf(g, funds[g], tier_dtype).records

Raises(f) == funds[f].analysis \in { "raise", "keyerror" }

\* C4: a fund whose computation raises contributes no row, the loop goes on
\* to collect every other future, and the rows of every other fund are the
\* rows it has in a run without the failing fund.
C4_FailingFundContributesNothing ==
    AllCollected =>
        /\ completed = Cardinality(Funds)
        /\ \A f \in Funds : Raises(f) =>
              /\ RowsOfFund(f) = <<>>
              /\ \A g \in Funds \ {f} : RowsOfFund(g) = RowsAlone(g)

\* one fund raised, another one has its rows in the built cache
C4_Witness ==
    /\ AllCollected /\ pc = "built"
    /\ \E f, g \in Funds :
        /\ funds[f].analysis = "raise" /\ RowsOfFund(f) = <<>>
        /\ funds[g].analysis = "ok" /\ Len(RowsOfFund(g)) = 4 * Len(WmtiTypes)

\* ---------------------------------------------------------------------- C5
\* C5: the batch run always yields a cache table, also when no fund gives a
\* row: once every future is collected and the frame is made, build_cache
\* has returned and the run has not aborted.
C5_RunAlwaysYieldsCache ==
    (AllCollected /\ pc # "collect") => pc \in { "built", "done" }

\* ---------------------------------------------------------------------- C6
RowKeyLeq(r1, r2) ==
    \/ r1.etf < r2.etf
    \/ r1.etf = r2.etf /\ r1.level < r2.level
    \/ r1.etf = r2.etf /\ r1.level = r2.level /\ r1.final_score <= r2.final_score

\* C6: the saved rows do not depend on the order in which the tasks
\* complete: they are in the order of (fund_id, level, score).
C6_SavedRowsSorted ==
    (prog = "builder" /\ pc = "done") =>
        \A i \in 1..(Len(Val(cache_file)) - 1) :
            RowKeyLeq(Val(cache_file)[i], Val(cache_file)[i + 1])

\* ---------------------------------------------------------------------- C7
Unmeasurable(f) == funds[f].analysis = "ok" /\ TierOf(f) = -1

\* the final_score the fund has at an archetype when its tier is measured
\* and within the level's limit
MeasuredScore(f, wmti_type) == FinalScore(funds[f].snap, 0, wmti_type)

ObservationDate(f, t) == LastDate - funds[f].n + t
\* the dates of the metric records of fund f: its rows left by dropna
RecordDates(f) == { gen_df[i].basDt : i \in { j \in DOMAIN gen_df : gen_df[j].srtnCd = f } }

\* C8: a fund with n >= WINDOW observations has exactly one metric record
\* for every date from its WINDOW-th observation on (n - WINDOW + 1 records)
\* and none for an earlier date.
C8_RecordFromWindowthObservation ==
    (prog = "risk" /\ pc = "normalize") =>
        \A f \in Funds : funds[f].n >= WINDOW =>
            /\ RecordDates(f) = { ObservationDate(f, t) : t \in WINDOW..funds[f].n }
            /\ Len(GroupOf(gen_df, f)) = funds[f].n - WINDOW + 1

\* ---------------------------------------------------------------------- C9
\* the risk-tier table the cache builder loads from the written file
FileDtype(rows) ==
    IF \E i \in DOMAIN rows : IsNone(rows[i].risk_tier) THEN "float64" ELSE "int64"
DownstreamTier(f) ==
    GetLatestRiskTier(GroupOf(Val(cache_file), f), FileDtype(Val(cache_file)))

\* C9: a fund with fewer than WINDOW observations gives no record and no
\* error: the run ends with the file written, the fund has no row in it, and
\* the cache builder reads its tier as -1.
C9_ShortFundAbsentWithoutError ==
    (prog = "risk" /\ pc \in { "done", "crashed" }) =>
        \A f \in Funds : funds[f].n < WINDOW =>
            /\ pc = "done"
            /\ GroupOf(Val(cache_file), f) = <<>>
            /\ DownstreamTier(f) = -1

\* --------------------------------------------------------------------- C10
\* C10: every row written has a Risk_Score that is a number in [0,1], the
\* weighted sum of the seven normalized metrics, the weights summing to 1.
C10_RiskScoreInUnitInterval ==
    /\ SumSeq([i \in DOMAIN risk_metrics |-> W_RISK[risk_metrics[i]]]) = 100
    /\ (prog = "risk" /\ pc = "done") =>
            \A i \in DOMAIN Val(cache_file) :
                /\ Val(cache_file)[i].Risk_Score.k = "fin"
                /\ Val(cache_file)[i].Risk_Score.v >= 0
                /\ Val(cache_file)[i].Risk_Score.v <= 1000000

\* --------------------------------------------------------------------- C11
\* the rows of the written file, and those of one date
FileRows == IF prog = "risk" /\ pc = "done" THEN Val(cache_file) ELSE <<>>
RowsOfDate(d) == SelectSeq(FileRows, LAMBDA row : row.basDt = d)
Dates == { FileRows[i].basDt : i \in DOMAIN FileRows }
Scored(row) == row.Risk_Score.k = "fin"
Tiered(row) == ~IsNone(row.risk_tier)

InUnit(scores) == \A i \in DOMAIN scores : scores[i] >= 0 /\ scores[i] <= 100

\* funds whose per-fund task of the builder computed scores
BuilderScored ==
    { f \in Funds : prog = "builder" /\ funds[f].analysis = "ok"
                    /\ task[f] \in { "returned", "collected" } }

\* rows of the generator's frame that carry the score columns
GenScoredRows ==
    IF prog = "generator" /\ pc \in { "level", "save", "done" }
    THEN { gen_df[i] : i \in DOMAIN gen_df } ELSE {}

\* C12: for every fund snapshot (inputs present, missing, negative, zero or far
\* above their scale) each of the five factor scores of the cache builder, of
\* the cache generator and of the recommendation engine lies in [0, 1]
C12_FactorScoresInUnitInterval ==
    /\ \A f \in BuilderScored : InUnit(BuilderFactorScores(funds[f].snap))
    /\ \A row \in GenScoredRows :
            /\ InUnit(row.scores)
            /\ InUnit(EngineFactorScores(funds[row.etf].snap))

\* a generated cache where negative inputs scored 0 and oversized ones 1
C12_Witness ==
    /\ prog = "generator" /\ pc = "done"
    /\ \E row \in GenScoredRows :
            funds[row.etf].snap = SnapNegative /\ row.scores[1] = 0
    /\ \E row \in GenScoredRows :
            funds[row.etf].snap = SnapHuge /\ row.scores[5] = 100

\* ---------------------------------------------------------------- claim C13
\* an archetype name the configuration does not list
UnknownWmtiType == "XXXX"

\* the archetypes the running program may ask weights for (the risk
\* calculator does not read the configuration)
AskedTypes ==
    IF prog = "risk" THEN {} ELSE DOMAIN WMTI_TYPE_WEIGHTS \cup { UnknownWmtiType }

\* C13: each of the 16 archetype weight vectors, and the default vector that
\* get_wmti_weights returns for an unknown archetype, has five non-negative
\* weights that sum to exactly 1.0 (100 hundredths); checked in every state
\* in which a program uses the configuration
C13_WeightVectorsSumToOne ==
    /\ Cardinality(DOMAIN WMTI_TYPE_WEIGHTS) = 16
    /\ DOMAIN WMTI_TYPE_WEIGHTS = { WmtiTypes[i] : i \in DOMAIN WmtiTypes }
    /\ \A t \in AskedTypes :
            LET w == get_wmti_weights(t)
            IN  /\ Len(w) = 5
                /\ \A i \in 1..5 : w[i] >= 0
                /\ SumSeq(w) = 100

\* a generated cache whose 16 archetype columns were computed with the
\* configured vectors, and an unknown archetype that gets the default vector
C13_Witness ==
    /\ prog = "generator" /\ pc = "done"
    /\ \E row \in GenScoredRows :
            /\ \A t \in DOMAIN WMTI_TYPE_WEIGHTS :
                    row.type_score[t] = WeightedSum(get_wmti_weights(t), row.scores)
            /\ row.type_score["APML"] # row.type_score["IBWC"]
    /\ get_wmti_weights(UnknownWmtiType) = DefaultWeights

\* ---------------------------------------------------------------- claim C14
\* the cache of the builder holds a row of fund f and archetype a at `level`
HoldsRow(f, level, a) == prog = "builder" /\ CountRows(f, level, a) >= 1

\* the (fund, level, archetype) keys of the rows the builder's cache holds
RowKeys ==
    IF prog = "builder"
    THEN { << all_records[i].etf, all_records[i].level, all_records[i].wmti_type >> :
             i \in DOMAIN all_records }
    ELSE {}

AllTasksFinished == \A f \in Funds : task[f] = "collected"

\* the orchestrator thread is past the `with ThreadPoolExecutor` block
PastJoin == pc \in { "built", "aborted", "done" }

\* C15: the builder writes the cache file only after every submitted task has
\* finished, from the orchestrator's position after the join; rows are
\* appended to the result set only by the orchestrator's collection loop,
\* before the write; and once the file is written no worker runs, no row is
\* appended and the file is not written again
C15_ForkJoinStep ==
    prog = "builder" =>
        /\ cache_file' # cache_file =>
                AllTasksFinished /\ Running = {} /\ pc = "built" /\ pc' = "done"
        /\ all_records' # all_records =>
                pc = "collect" /\ cache_file = None /\ cache_file' = None
        /\ PastJoin => AllTasksFinished /\ task' = task /\ all_records' = all_records
        /\ cache_file # None => cache_file' = cache_file
C15_ForkJoinOrdering == [][C15_ForkJoinStep]_vars

\* the file is written with the rows of two tasks that both returned records
C15_Witness ==
    /\ prog = "builder" /\ pc = "done" /\ cache_file # None
    /\ AllTasksFinished /\ completed = NumFunds
    /\ \A f \in Funds : result[f] # <<>> /\ RowsOfFund(f) = result[f]

\* ---------------------------------------------------------------- claim C16
\* the step is the end of the per-fund task of f (a worker thread)
TaskStepOf(f) == task[f] = "running" /\ task'[f] # "running"

\* the step is an iteration of the orchestrator's collection loop
OrchestratorCollects ==
    pc = "collect" /\ \E f \in Funds : task[f] = "returned" /\ task'[f] = "collected"

\* C16: a per-fund task leaves the shared input tables unchanged and writes
\* only its own list of records (and its own future); the aggregated record
\* list changes only in the orchestrator's collection loop, never in a step
\* of a worker
C16_TaskFrameStep ==
    prog = "builder" =>
        /\ funds' = funds /\ tier_dtype' = tier_dtype /\ tier_loaded' = tier_loaded
        /\ \A f \in Funds :
                /\ TaskStepOf(f) =>
                        /\ \A g \in Funds \ { f } :
                                result'[g] = result[g] /\ task'[g] = task[g]
                        /\ all_records' = all_records
                        /\ completed' = completed /\ cache_file' = cache_file
                /\ result'[f] # result[f] => TaskStepOf(f)
        /\ all_records' # all_records =>
                OrchestratorCollects /\ \A f \in Funds : ~TaskStepOf(f)
C16_TaskWritesOnlyItsRecords == [][C16_TaskFrameStep]_vars

\* one task has returned its records while another still runs, and the
\* aggregated list has not been touched
C16_Witness ==
    /\ prog = "builder" /\ all_records = <<>>
    /\ \E f, g \in Funds :
            /\ task[f] = "returned" /\ result[f] # <<>>
            /\ task[g] = "running" /\ result[g] = <<>>

\* ---------------------------------------------------------------- claim C17
\* rows of the frame whose seven metrics were computed over a full window
MetricRows ==
    IF prog = "risk" /\ pc \in { "dropna", "normalize", "score", "tier" }
    THEN { gen_df[i] : i \in { j \in DOMAIN gen_df : gen_df[j].metrics.vol.k = "fin" } }
    ELSE {}

\* the index of the fund of a row did not move over any window
BenchmarkVarianceZero(row) == funds[row.srtnCd].index = "flat"

\* C17: whenever the denominator of beta, Sharpe or Sortino is zero over the
\* window (benchmark variance, volatility, downside deviation), the ratio is
\* missing (NaN): not 0, not infinite
C17_ZeroDenominatorRatioMissing ==
    \A row \in MetricRows :
        /\ BenchmarkVarianceZero(row) => IsNaN(row.metrics.beta)
        /\ row.metrics.vol.v = 0 => IsNaN(row.metrics.sharpe)
        /\ row.metrics.down_dev.v = 0 => IsNaN(row.metrics.sortino)

\* ---------------------------------------------------------------- claim C18
\* funds whose closing price is the same on every day of a full history
ConstantPriceFunds ==
    IF prog = "risk"
    THEN { f \in Funds : funds[f].shape = "flat" /\ funds[f].n = LastDate }
    ELSE {}

\* the dates on which a fund with a full history has a full window
FullWindowDates == (WINDOW + 1)..LastDate

\* the run of the risk calculator has ended, with or without a file
RiskRunEnded == prog = "risk" /\ pc \in { "done", "crashed" }

\* C18: a fund whose price is constant has volatility 0 and max_drawdown 0,
\* its Sharpe and Sortino ratios are missing, and it still receives a
\* risk_score on each of its full-window dates (it is not dropped)
C18_ConstantPriceFundScored ==
    /\ \A row \in MetricRows :
            row.srtnCd \in ConstantPriceFunds =>
                /\ row.metrics.vol.v = 0 /\ row.metrics.max_dd = Fin(0)
                /\ IsNaN(row.metrics.sharpe) /\ IsNaN(row.metrics.sortino)
    /\ RiskRunEnded =>
            \A f \in ConstantPriceFunds : \A d \in FullWindowDates :
                \E i \in DOMAIN FileRows :
                    /\ FileRows[i].srtnCd = f /\ FileRows[i].basDt = d
                    /\ Scored(FileRows[i])

\* ---------------------------------------------------------------- claim C19
\* rows of the frame that carry the normalized metrics n_<m>
NormalizedRows ==
    IF prog = "risk" /\ pc = "score"
    THEN { gen_df[i] : i \in DOMAIN gen_df } ELSE {}

\* C19: normalization is per metric and per date, so on every date of the
\* frame and for every metric some fund of that date has normalized value 1
C19_NormalizedPerDate ==
    \A row \in NormalizedRows : \A m \in Range(risk_metrics) :
        \E other \in NormalizedRows :
            other.basDt = row.basDt /\ other.n[m] = Fin(10000)

\* ---------------------------------------------------------------- claim C20
\* the scored rows of date d in the written file
ScoredRowsOfDate(d) == SelectSeq(RowsOfDate(d), Scored)

\* the scores of date d cannot be cut into 5 distinct tiers: fewer than 5
\* funds, or tied scores
Degenerate(d) ==
    LET rows == ScoredRowsOfDate(d)
    IN  \/ Len(rows) < NumTiers
        \/ \E i, j \in DOMAIN rows : i # j /\ rows[i].Risk_Score = rows[j].Risk_Score

\* C20: on a date whose scores cannot be split into 5 distinct tiers (ties,
\* fewer than 5 funds, a single fund) every scored fund of the date still has
\* a risk_tier in 0..4
C20_DegenerateDateStillTiered ==
    \A d \in Dates :
        Degenerate(d) =>
            \A i \in DOMAIN ScoredRowsOfDate(d) :
                LET row == ScoredRowsOfDate(d)[i]
                IN  Tiered(row) /\ Val(row.risk_tier) \in 0..(NumTiers - 1)

\* ---------------------------------------------------------------- claim C21
\* the return score as C21 states it, hundredths: (r1y + 50) / 100 clamped,
\* else (r3m + 20) / 40 clamped, else 0.5
StatedReturnScore(snap) ==
    IF ~IsNone(snap.ret1y) THEN Clamp01(Val(snap.ret1y) + 50)
    ELSE IF ~IsNone(snap.ret3m) THEN Clamp01(((Val(snap.ret3m) + 20) * 100) \div 40)
    ELSE 50

\* C21: wherever it is computed (generator, engine, builder), return_score is
\* (r1y + 50) / 100 clamped when the 1-year return is present, (r3m + 20) / 40
\* clamped when only the 3-month return is, and 0.5 when neither is
C21_ReturnScoreMapping ==
    /\ \A row \in GenScoredRows :
            /\ row.scores[1] = StatedReturnScore(funds[row.etf].snap)
            /\ EngineFactorScores(funds[row.etf].snap)[1] =
                    StatedReturnScore(funds[row.etf].snap)
    /\ \A f \in BuilderScored :
            BuilderFactorScores(funds[f].snap)[1] = StatedReturnScore(funds[f].snap)

\* ---------------------------------------------------------------- claim C22
\* the risk-adjusted score as C22 states it for a return and a volatility in
\* percent, hundredths: (return / volatility + 2) / 4 clamped, else 0.5
StatedRiskAdjustedScore(ret, volatility) ==
    IF ~IsNone(ret) /\ ~IsNone(volatility) /\ Val(volatility) > 0
    THEN Clamp01((Val(ret) * 25) \div Val(volatility) + 50)
    ELSE 50

\* the volatility the builder has for a fund, percent: the value of its grade
BuilderVolatility(snap) ==
    IF IsNone(snap.grade) THEN None ELSE Some(GradeVolatility(Val(snap.grade)))

\* C22: risk_adjusted_score is (return / volatility + 2) / 4 clamped when the
\* 1-year return and a volatility > 0 are present, and exactly 0.5 when the
\* return is missing, the volatility is missing or the volatility is <= 0
C22_RiskAdjustedScoreMapping ==
    /\ \A row \in GenScoredRows :
            row.scores[2] =
                StatedRiskAdjustedScore(funds[row.etf].snap.ret1y, funds[row.etf].snap.vol)
    /\ \A f \in BuilderScored :
            BuilderFactorScores(funds[f].snap)[2] =
                StatedRiskAdjustedScore(funds[f].snap.ret1y,
                                        BuilderVolatility(funds[f].snap))

\* ---------------------------------------------------------------- claim C23
\* the stability score as C23 states it, hundredths, for an AUM in units of
\* 10^9: clamp(aum / 100,000,000,000), 0.5 when the AUM is missing
StatedStabilityScore(snap) ==
    IF IsNone(snap.aum) THEN 50 ELSE Clamp01(Val(snap.aum))

\* a score below 1.0 for an AUM below 100 billion, 1.0 from there upward
StabilityReachesOneAtHundredBillion(snap, score) ==
    ~IsNone(snap.aum) => (score = 100 <=> Val(snap.aum) >= 100)

\* C23: in every place that computes it (generator, engine, builder)
\* stability_score is clamp(aum / 100,000,000,000, 0, 1): below 1.0 for every
\* AUM below 100 billion, 1.0 from 100 billion upward, 0.5 for a missing AUM
C23_StabilityScoreMapping ==
    /\ \A row \in GenScoredRows :
            LET snap == funds[row.etf].snap
            IN  /\ row.scores[5] = StatedStabilityScore(snap)
                /\ StabilityReachesOneAtHundredBillion(snap, row.scores[5])
                /\ EngineFactorScores(snap)[5] = StatedStabilityScore(snap)
    /\ \A f \in BuilderScored :
            LET snap == funds[f].snap
            IN  /\ BuilderFactorScores(snap)[5] = StatedStabilityScore(snap)
                /\ StabilityReachesOneAtHundredBillion(snap, BuilderFactorScores(snap)[5])

\* ---------------------------------------------------------------- claim C24
\* the factors (1 return, 2 risk-adjusted, 3 cost, 4 liquidity, 5 stability)
\* whose input is missing in a snapshot; `volatility` is the volatility the
\* scorer is given
MissingFactors(snap, volatility) ==
    { i \in 1..5 :
        \/ i = 1 /\ IsNone(snap.ret1y) /\ IsNone(snap.ret3m)
        \/ i = 2 /\ (IsNone(snap.ret1y) \/ IsNone(volatility))
        \/ i = 3 /\ IsNone(snap.fee)
        \/ i = 4 /\ IsNone(snap.volume)
        \/ i = 5 /\ IsNone(snap.aum) }

\* C24: a factor score is exactly 0.5 whenever its input is missing, and a
\* missing input neither raises nor keeps the fund out of the cache
C24_MissingInputScoresHalf ==
    /\ \A row \in GenScoredRows :
            \A i \in MissingFactors(funds[row.etf].snap, funds[row.etf].snap.vol) :
                row.scores[i] = 50
    /\ prog = "generator" /\ pc \in { "level", "save", "done" } =>
            \A f \in Funds : \E row \in GenScoredRows : row.etf = f
    /\ \A f \in BuilderScored :
            /\ \A i \in MissingFactors(funds[f].snap, BuilderVolatility(funds[f].snap)) :
                    BuilderFactorScores(funds[f].snap)[i] = 50
            /\ task[f] = "collected" => RowsOfFund(f) # <<>>

\* ------------------------------------------------------------------ C25
\* the window of daily returns behind the metrics of a row
WindowReturns(row) ==
    LET p == funds[row.srtnCd]
        r == PctChange([t \in 1..p.n |-> Clpr(p, t)])
    IN  WindowAt(r, row.basDt - (LastDate - p.n))
\* the cumulative value never falls from one day of the window to the next
CumulativeNonDecreasing(w) == \A i \in 2..Len(w) : w[i] >= 0
SomeNegativeReturn(w) == \E i \in DOMAIN w : w[i] < 0

\* C25: the maximum drawdown of a window is never negative, is 0 when the
\* cumulative value is non-decreasing over the window, and is strictly
\* positive as soon as one return of the window is negative.
C25_MaxDrawdownSign ==
    \A row \in MetricRows :
        LET w == WindowReturns(row)
            mdd == row.metrics.max_dd
        IN  /\ mdd = Fin(max_drawdown(w))
            /\ mdd.v >= 0
            /\ CumulativeNonDecreasing(w) => mdd.v = 0
            /\ SomeNegativeReturn(w) => mdd.v > 0

\* ------------------------------------------------------------------ C26
\* a call of fast_recommend_etfs has returned
Recommended == ~IsNone(request) /\ ~IsNone(recommendations)
\* the normalized level of the request
UserLevel == validate_user_profile(Val(request).user_profile.level)
EmptyKeyword == SelectSeq(Val(request).category_keyword, LAMBDA c : c # " ") = <<>>
\* fund f has a row of the saved cache at level L within the risk limit of L
HasRowAtLevel(f, L) ==
    \E i \in DOMAIN Val(cache_file) :
        LET row == Val(cache_file)[i]
        IN  /\ row.etf = f /\ row.level = L
            /\ ~IsNone(row.risk_tier)
            /\ Val(row.risk_tier) <= LEVEL_RISK_TIER_LIMITS[L]
\* the first row of fund f in the saved cache
FirstRowOf(f) ==
    CHOOSE i \in DOMAIN Val(cache_file) :
        /\ Val(cache_file)[i].etf = f
        /\ \A j \in 1..(i - 1) : Val(cache_file)[j].etf # f
\* an earlier fund of the cache follows the same normalized underlying index
ReplacedByEarlierFund(f) ==
    \E g \in { Val(cache_file)[i].etf : i \in DOMAIN Val(cache_file) } \ { f } :
        /\ FirstRowOf(g) < FirstRowOf(f)
        /\ NormalizeIndex(funds[g].base_index) = NormalizeIndex(funds[f].base_index)
\* the funds the ranking step of the call worked on
RankedFunds ==
    LET req == Val(request)
        cand == Candidates(req.user_profile, ReadCache(Val(cache_file)),
                           CacheColumns, req.category_keyword)
    IN  IF cand.raised THEN {} ELSE { cand.df[i].etf : i \in DOMAIN cand.df }
ReturnedFunds ==
    LET etfs == Val(recommendations).etfs
    IN  { etfs[i].etf : i \in DOMAIN etfs }

\* C26: for a saved cache and an empty category keyword, every fund that has a
\* cache row at the user's level L with risk_tier <= LevelRiskLimit[L] is
\* ranked as a candidate for level L (and returned when top_n leaves room for
\* every fund), unless an earlier fund with the same normalized underlying
\* index replaces it.
C26_LookupComplete ==
    (Recommended /\ EmptyKeyword) =>
        \A f \in Funds :
            (HasRowAtLevel(f, UserLevel) /\ ~ReplacedByEarlierFund(f)) =>
                /\ f \in RankedFunds
                /\ Val(request).top_n >= NumFunds => f \in ReturnedFunds

\* ------------------------------------------------------------------ C27
\* row i of the saved cache has the level and is within its risk limit
Qualifies(i, level) ==
    LET row == Val(cache_file)[i]
    IN  /\ row.level = level
        /\ ~IsNone(row.risk_tier)
        /\ Val(row.risk_tier) <= LEVEL_RISK_TIER_LIMITS[level]
\* the call met an internal error (the exception its except clause catches)
InternalError ==
    LET req == Val(request)
    IN  Candidates(req.user_profile, ReadCache(Val(cache_file)), CacheColumns,
                   req.category_keyword).raised

\* C27: every fund returned by fast_recommend_etfs comes from a cache row
\* whose level is the user's normalized level (in 1..5, 3 when the profile
\* gives none or an invalid one) and whose risk_tier is within the limit of
\* that level; when no row qualifies, or on an internal error, the result is
\* the single guidance entry and no fund.
C27_ReturnedFundsEligible ==
    Recommended =>
        LET out == Val(recommendations)
            level == Val(request).user_profile.level
        IN  /\ UserLevel \in 1..5
            /\ (level.k = "none" \/ (level.k = "int" /\ level.v \notin 1..5))
                  => UserLevel = 3
            /\ \A k \in DOMAIN out.etfs :
                  /\ out.etfs[k].level = UserLevel
                  /\ \E i \in DOMAIN Val(cache_file) :
                        /\ Val(cache_file)[i].etf = out.etfs[k].etf
                        /\ Qualifies(i, UserLevel)
            /\ (\A i \in DOMAIN Val(cache_file) : ~Qualifies(i, UserLevel))
                  => out.guidance
            /\ InternalError => out.guidance
            /\ out.guidance => out.etfs = <<>>

\* funds are returned to a profile whose level is a string, from a cache that
\* also has a row that does not qualify
C27_Witness ==
    /\ Recommended
    /\ Val(request).user_profile.level.k = "str"
    /\ ReturnedFunds # {}
    /\ \E i \in DOMAIN Val(cache_file) : ~Qualifies(i, UserLevel)

\* ------------------------------------------------------------------ C28
\* the candidates of the call with their final scores, in ranking order
RankedCandidates ==
    LET req == Val(request)
        cand == Candidates(req.user_profile, ReadCache(Val(cache_file)),
                           CacheColumns, req.category_keyword)
        wmti_type == IF IsNone(req.user_profile.wmti_type) THEN DefaultWmtiType
                     ELSE Val(req.user_profile.wmti_type)
    IN  IF cand.raised \/ "item_name" \notin CacheColumns THEN <<>>
        ELSE CalculateWmtiScores(cand.df, wmti_type, CacheColumns)

\* C28: fast_recommend_etfs returns at most top_n funds, in non-increasing
\* order of final_score, with at most one row per fund code and per
\* normalized underlying index, and no candidate that was left out has a
\* strictly higher final_score than a returned one.
C28_TopRanked ==
    Recommended =>
        LET etfs == Val(recommendations).etfs
            ranked == RankedCandidates
        IN  /\ Len(etfs) <= Val(request).top_n
            /\ \A i, j \in DOMAIN etfs :
                  /\ i < j => etfs[i].final_score >= etfs[j].final_score
                  /\ i # j => etfs[i].etf # etfs[j].etf
                  /\ i # j => NormalizeIndex(etfs[i].base_index)
                                 # NormalizeIndex(etfs[j].base_index)
            /\ \A k \in DOMAIN etfs :
                  \E c \in DOMAIN ranked : ranked[c] = etfs[k]
            /\ \A c \in DOMAIN ranked :
                  (\A k \in DOMAIN etfs : etfs[k].etf # ranked[c].etf) =>
                      \A k \in DOMAIN etfs :
                          ranked[c].final_score <= etfs[k].final_score

\* one fund is returned and a candidate with a lower score is left out
C28_Witness ==
    /\ Recommended
    /\ Len(Val(recommendations).etfs) = 1
    /\ Val(request).top_n = 1
    /\ \E c \in DOMAIN RankedCandidates :
          RankedCandidates[c].final_score < Val(recommendations).etfs[1].final_score

\* ------------------------------------------------------------------ C29
\* a composite score (1/10000) within 0.0 .. 1.0
InUnitComposite(x) == x >= 0 /\ x <= 10000

\* C29: in every cache row, of the builder (final_score) and of the generator
\* (score_<archetype> for each of the 16 archetypes, total_score), the
\* composite score lies in [0,1].
C29_CompositeInUnitInterval ==
    /\ prog = "builder" =>
          \A i \in DOMAIN all_records : InUnitComposite(all_records[i].final_score)
    /\ (prog = "generator" /\ pc \in { "level", "save", "done" }) =>
          \A i \in DOMAIN gen_df :
              /\ InUnitComposite(gen_df[i].total_score)
              /\ \A t \in DOMAIN WMTI_TYPE_WEIGHTS :
                    InUnitComposite(gen_df[i].type_score[t])

\* the generator has scored a fund whose inputs are far above scale and a
\* fund whose inputs are all negative
C29_Witness ==
    /\ prog = "generator" /\ pc = "done"
    /\ \E f, g \in Funds : funds[f].snap = SnapHuge /\ funds[g].snap = SnapNegative
    /\ \E i \in DOMAIN gen_df : gen_df[i].total_score > 0

\* ------------------------------------------------------------------ C30
\* the records of recs no other record of which has a greater date
LatestRecords(recs) ==
    { i \in DOMAIN recs : \A j \in DOMAIN recs : recs[j].basDt <= recs[i].basDt }

\* C30: for every fund whose task has started, get_latest_risk_tier returns
\* -1 or a tier in 0..4: the risk_tier of the fund's record with the greatest date when that value is a non-negative
\* number, and -1 when the fund has no record or when that latest value is
\* missing or negative; never the tier of an older record.
C30_LatestTierReturned ==
    prog = "builder" =>
        \A f \in { g \in Funds : task[g] # "new" } :
            LET recs == funds[f].risk_recs
                tier == GetLatestRiskTier(recs, tier_dtype)
            IN  /\ tier \in (-1)..4
                /\ recs = <<>> => tier = -1
                /\ recs # <<>> =>
                      \E i \in LatestRecords(recs) :
                          IF IsNone(recs[i].risk_tier) \/ Val(recs[i].risk_tier) < 0
                          THEN tier = -1
                          ELSE tier = Val(recs[i].risk_tier)

====
